---- MODULE Spec2Model ----
(***************************************************************************)
(* Enrichment-routing pipeline of the FIRE ticket router.                  *)
(*                                                                         *)
(*   run.py      main / enrich_one : parallel enrichment, ordered collect, *)
(*                                   then FIREEngine(...).distribute()     *)
(*   engine.py   FIREEngine        : get_office, _apply_filters,           *)
(*                                   _select_manager, _find_nearest_manager*)
(*   ai/geo.py   GeoNormalizer     : normalise, geocode, distance_km       *)
(*                                                                         *)
(* Strings of the deployed corpus are Russian; the model writes them in    *)
(* Latin letters ("Astana" for the office "Астана", "ChangeOfData" for the *)
(* category "Смена данных", ...).  Coordinates are integers in 1e-4        *)
(* degree, distances integers in 1e-2 km (the code rounds to 2 decimals).  *)
(***************************************************************************)
EXTENDS Integers, Sequences, FiniteSets, TLC

VARIABLES
    tickets_df,          \* run.py:52   input rows, in input order
    managers_df,         \* run.py:53   manager rows (static columns + initial load)
    api_key,             \* run.py:45   LLM credential, "" when absent
    wstate,              \* run.py:68-73 state of the future of ticket i
    llm_response,        \* llm_analyzer.py:89-100 what the LLM call of ticket i got
    future_result,       \* run.py:78   value held by the completed future i
    enriched_rows,       \* run.py:61   fixed-size slot list
    pc,                  \* position of main(): enrich / routing / done / raised
    load,                \* engine.py:138,280  managers["load"], by row index
    rr_counters,         \* engine.py:73  (office, language) -> counter
    unknown_loc_counter, \* engine.py:74
    results,             \* engine.py:384 rows appended by distribute
    client,              \* llm_client.py:6  the global _client
    last_key,            \* llm_client.py:7  the global _last_key
    gc_pc,               \* position of worker i inside get_client
    gc_ret,              \* what get_client returned to worker i
    constructed          \* the workers whose call constructed a client

vars == <<tickets_df, managers_df, api_key, wstate, llm_response, future_result,
          enriched_rows, pc, load, rr_counters, unknown_loc_counter, results,
          client, last_key, gc_pc, gc_ret, constructed>>

\* The state of ai/llm_client.py and of the calls of get_client.
clientVars == <<client, last_key, gc_pc, gc_ret, constructed>>

(***************************************************************************)
(* Bounds of the model.                                                    *)
(***************************************************************************)
MaxTickets == 3
MaxEnrichTickets == 2
MaxCalls == 3

(***************************************************************************)
(* Python None for the optional columns.                                   *)
(***************************************************************************)
NoCoords == [known |-> FALSE]
NoDist == -1
NoOffice == "None"
NoRow == [guid |-> 0]
SENTINEL == "CAPITAL_ESCALATION"

Coords(la, lo) == [known |-> TRUE, lat |-> la, lon |-> lo]

(***************************************************************************)
(* ai/geo.py                                                               *)
(***************************************************************************)
CITY_COORDS ==
    [k \in {"astana", "almaty", "oral"} |->
        CASE k = "astana" -> Coords(511694, 714491)
          [] k = "almaty" -> Coords(432389, 768897)
          [] k = "oral"   -> Coords(512333, 513667)]

ALIASES ==
    [k \in {"uralsk", "nur-sultan"} |->
        CASE k = "uralsk"     -> "oral"
          [] k = "nur-sultan" -> "astana"]

\* The raw strings the model feeds to normalise, with the key the code
\* produces for each (lower-casing, prefix and punctuation stripping).
RawNames == {"Astana", "Almaty", "Oral", "Uralsk", "g. Astana", "Tashkent", ""}

normalise(text) ==
    CASE text = ""          -> ""
      [] text = "Astana"    -> "astana"
      [] text = "g. Astana" -> "astana"
      [] text = "Almaty"    -> "almaty"
      [] text = "Oral"      -> "oral"
      [] text = "Uralsk"    -> "uralsk"
      [] text = "Tashkent"  -> "tashkent"
      [] OTHER              -> text

\* Python's `a in b` on the keys of the model: none of them is a proper
\* substring of another.
IsSubstring(a, b) == a = b

geocode(city) ==
    LET key == normalise(city) IN
    IF key = "" THEN NoCoords
    ELSE IF key \in DOMAIN CITY_COORDS THEN CITY_COORDS[key]
    ELSE IF key \in DOMAIN ALIASES /\ ALIASES[key] \in DOMAIN CITY_COORDS
         THEN CITY_COORDS[ALIASES[key]]
    ELSE IF \E k \in DOMAIN CITY_COORDS : IsSubstring(k, key) \/ IsSubstring(key, k)
         THEN CITY_COORDS[CHOOSE k \in DOMAIN CITY_COORDS :
                              IsSubstring(k, key) \/ IsSubstring(key, k)]
    ELSE NoCoords

\* round(distance_km(...), 2) in 1e-2 km, for the points of CITY_COORDS.
distance_km(p, q) ==
    LET a == CITY_COORDS["astana"]
        b == CITY_COORDS["almaty"]
        c == CITY_COORDS["oral"]
    IN  CASE p = q                 -> 0
          [] {p, q} = {a, b}       -> 97225
          [] {p, q} = {a, c}       -> 139485
          [] {p, q} = {b, c}       -> 210784

\* Number of positional parameters geocode accepts besides self.
GeocodeParams == 1

\* A call self.geo.geocode(*args): binding more positional arguments than
\* the method has parameters raises TypeError before the body runs.
CallGeocode(args) ==
    IF Len(args) > GeocodeParams
    THEN [raised |-> TRUE, value |-> NoCoords]
    ELSE [raised |-> FALSE, value |-> geocode(args[1])]

(***************************************************************************)
(* ai/nlp.py, ai/sentiment.py: the rule-based classifiers are pure         *)
(* functions of the body.  The model names the bodies it routes and gives  *)
(* the value the code computes for each:                                   *)
(*   consult_ru  "Подскажите как открыть счет"                             *)
(*   consult_eng "Please help me reset my password"                        *)
(*   change_kz   "Нөмірімді жаңа нөміріне ауыстырып беріңіз"               *)
(*   fraud_ru    "Мошенники украли деньги со счёта без моего ведома"       *)
(*   long_ru     "Подскажите как открыть счет и какие документы нужны для  *)
(*               этого" eight times over, 495 characters, no terminator    *)
(***************************************************************************)
Texts == {"consult_ru", "consult_eng", "change_kz", "fraud_ru", "long_ru", ""}

classify(text) ==
    CASE text = "change_kz" -> "ChangeOfData"
      [] text = "fraud_ru"  -> "Fraud"
      [] OTHER              -> "Consultation"

detect(text) ==
    CASE text = "change_kz"   -> "KZ"
      [] text = "consult_eng" -> "ENG"
      [] OTHER                -> "RU"

analyze(text) ==
    CASE text = "fraud_ru" -> "NEG"
      [] OTHER             -> "NEU"

(***************************************************************************)
(* ai/summarizer.py.  len() of the strings of the model; the strings an    *)
(* LLM response can carry are listed with the bodies.                      *)
(***************************************************************************)
Chars(s) ==
    CASE s = ""                     -> 0
      [] s = "consult_ru"           -> 27
      [] s = "consult_eng"          -> 32
      [] s = "change_kz"            -> 41
      [] s = "fraud_ru"             -> 49
      [] s = "long_ru"              -> 495
      [] s = "long_ru[:300]"        -> 300
      [] s = "llm_summary"          -> 40
      [] s = "llm_summary_long"     -> 350
      [] s = "llm_rec"              -> 60
      [] s = "llm_rec_long"         -> 320
      [] s = "rec_fraud"            -> 78
      [] s = "rec_claim_urgent"     -> 86
      [] s = "rec_claim"            -> 73
      [] s = "rec_complaint_urgent" -> 83
      [] s = "rec_complaint"        -> 71
      [] s = "rec_app_critical"     -> 65
      [] s = "rec_app"              -> 76
      [] s = "rec_change"           -> 57
      [] s = "rec_spam"             -> 71
      [] s = "rec_consult_pos"      -> 63
      [] s = "rec_consult"          -> 58
      [] s = "rec_default"          -> 62

MAX_SUMMARY_LEN == 300

\* s[:n] on the strings of the model.
Truncate(s, n) ==
    IF Chars(s) <= n THEN s
    ELSE CASE s = "long_ru" /\ n = 300 -> "long_ru[:300]"

\* Every body of the model is a single sentence of at least 10 characters
\* with single spaces (or empty), so the joined sentences are the body.
summarize(text) == Truncate(text, MAX_SUMMARY_LEN)

\* (type_contains, min_priority, sentiment_or_ANY, recommendation)
RECOMMENDATION_RULES ==
    << <<"Fraud", 1, "ANY", "rec_fraud">>,
       <<"Claim", 7, "NEG", "rec_claim_urgent">>,
       <<"Claim", 1, "ANY", "rec_claim">>,
       <<"Complaint", 7, "NEG", "rec_complaint_urgent">>,
       <<"Complaint", 1, "ANY", "rec_complaint">>,
       <<"AppFailure", 7, "ANY", "rec_app_critical">>,
       <<"AppFailure", 1, "ANY", "rec_app">>,
       <<"ChangeOfData", 1, "ANY", "rec_change">>,
       <<"Spam", 1, "ANY", "rec_spam">>,
       <<"Consultation", 1, "POS", "rec_consult_pos">>,
       <<"Consultation", 1, "ANY", "rec_consult">> >>

DEFAULT_RECOMMENDATION == "rec_default"

RuleMatches(rule, ticket_type, priority, sentiment) ==
    /\ IsSubstring(rule[1], ticket_type)
    /\ priority >= rule[2]
    /\ (rule[3] = "ANY" \/ rule[3] = sentiment)

recommend(ticket_type, priority, sentiment) ==
    IF \E i \in 1..Len(RECOMMENDATION_RULES) :
          RuleMatches(RECOMMENDATION_RULES[i], ticket_type, priority, sentiment)
    THEN RECOMMENDATION_RULES[
            CHOOSE i \in 1..Len(RECOMMENDATION_RULES) :
               /\ RuleMatches(RECOMMENDATION_RULES[i], ticket_type, priority, sentiment)
               /\ \A j \in 1..(i - 1) :
                     ~RuleMatches(RECOMMENDATION_RULES[j], ticket_type, priority, sentiment)][4]
    ELSE DEFAULT_RECOMMENDATION

(***************************************************************************)
(* ai/enricher.py                                                          *)
(***************************************************************************)
HIGH_PRIORITY_TYPES == {"Fraud", "Complaint", "Claim"}
BASE_PRIORITY == 5
HIGH_TYPE_BONUS == 3
NEGATIVE_SENTIMENT_BONUS == 2
VIP_BONUS == 2
PRIORITY_MIN == 1
PRIORITY_MAX == 10

Max2(a, b) == IF a >= b THEN a ELSE b
Min2(a, b) == IF a <= b THEN a ELSE b

\* Variant: the value is returned as it is.
clamp_off(value, lo, hi) == value

clamp(value, lo, hi) == Max2(lo, Min2(hi, value))

\* str.strip().upper() on the segment strings of the model.
Upper(s) ==
    CASE s = "vip"  -> "VIP"
      [] s = "mass" -> "MASS"
      [] OTHER      -> s

calculate_priority(ai_type, sentiment, segment) ==
    clamp(BASE_PRIORITY
          + (IF ai_type \in HIGH_PRIORITY_TYPES THEN HIGH_TYPE_BONUS ELSE 0)
          + (IF sentiment = "NEG" THEN NEGATIVE_SENTIMENT_BONUS ELSE 0)
          + (IF Upper(segment) = "VIP" THEN VIP_BONUS ELSE 0),
          PRIORITY_MIN, PRIORITY_MAX)

\* What analyze_with_llm returned: NoLLM is Python None.
NoLLM == [present |-> FALSE]

\* A JSON value that is absent or not a string (dict.get gives None).
JsonNull == "null"

\* _safe_str(value, "")
safe_str(value) == IF value = JsonNull THEN "" ELSE value

\* or-chain of enrich: the LLM field when it is a non-empty string, else the
\* rule-based value.
OrElse(a, b) == IF a # "" THEN a ELSE b

enrich(ticket, llm) ==
    IF llm.present
    THEN LET ai_type   == OrElse(safe_str(llm.ai_type), classify(ticket.text))
             ai_lang   == OrElse(safe_str(llm.ai_lang), detect(ticket.text))
             sentiment == OrElse(safe_str(llm.sentiment), analyze(ticket.text))
             priority  == IF llm.priority # 0
                          THEN clamp(llm.priority, PRIORITY_MIN, PRIORITY_MAX)
                          ELSE calculate_priority(ai_type, sentiment, ticket.segment)
         IN  [ai_type |-> ai_type, ai_lang |-> ai_lang, sentiment |-> sentiment,
              priority |-> priority,
              summary |-> OrElse(safe_str(llm.summary), summarize(ticket.text)),
              recommendation |-> OrElse(safe_str(llm.recommendation),
                                        recommend(ai_type, priority, sentiment)),
              coords |-> geocode(OrElse(safe_str(llm.city), ticket.city))]
    ELSE LET ai_type   == classify(ticket.text)
             ai_lang   == detect(ticket.text)
             sentiment == analyze(ticket.text)
             priority  == calculate_priority(ai_type, sentiment, ticket.segment)
         IN  [ai_type |-> ai_type, ai_lang |-> ai_lang, sentiment |-> sentiment,
              priority |-> priority,
              summary |-> summarize(ticket.text),
              recommendation |-> recommend(ai_type, priority, sentiment),
              coords |-> geocode(ticket.city)]

(***************************************************************************)
(* run.py                                                                  *)
(***************************************************************************)
MAX_WORKERS == 20

\* merged = row.to_dict(); merged.update(ai_data): the keys of ai_data
\* (lat and lon among them) overwrite those of the input row.
merge_row(row, ai_data) ==
    [guid |-> row.guid, description |-> row.description, city |-> row.city,
     region |-> row.region, country |-> row.country, segment |-> row.segment,
     ai_type |-> ai_data.ai_type, ai_lang |-> ai_data.ai_lang,
     sentiment |-> ai_data.sentiment, priority |-> ai_data.priority,
     summary |-> ai_data.summary, recommendation |-> ai_data.recommendation,
     coords |-> ai_data.coords]

\* enrich_one when enricher.enrich returns.
enrich_one(row, llm) ==
    merge_row(row, enrich([text |-> row.description, city |-> row.city,
                           segment |-> row.segment], llm))

\* The dict of the except branch.
DEFAULT_AI_DATA ==
    [ai_type |-> "Consultation", ai_lang |-> "RU", sentiment |-> "NEU",
     priority |-> 5, summary |-> "", recommendation |-> "", coords |-> NoCoords]

\* enrich_one when enricher.enrich raises.
enrich_one_except(row) == merge_row(row, DEFAULT_AI_DATA)

(***************************************************************************)
(* engine.py: module-level helpers and the prepared frames                 *)
(***************************************************************************)
\* units_df["office"], in row order.
Units == <<"Astana", "Almaty", "Oral">>

\* Lexicographic order of the manager names of the model.
NameOrder == <<"L1", "L2", "L3", "M1", "M2", "M3">>
NameRank(n) == CHOOSE i \in 1..Len(NameOrder) : NameOrder[i] = n

clean_city(raw) ==
    CASE raw \in {"NULL", "nan", "none", "-", ""} -> ""
      [] raw = "Astana/Almaty"                    -> "Astana"
      [] OTHER                                    -> raw

normalize_segment(segment) ==
    LET s == Upper(segment) IN
    CASE s \in {"VIP", "VIP_RU"}                 -> "VIP"
      [] s \in {"PRIORITY", "PRIORITET", "PRIOR"} -> "PRIORITY"
      [] OTHER                                    -> s

\* _prepare_tickets on one row of the enriched frame.
prepare_ticket(row) ==
    [row EXCEPT !.city = clean_city(row.city),
                !.segment = normalize_segment(row.segment)]

\* str.lower().str.contains(pattern) on the office names of the model.
NameContains(off, pattern) ==
    \/ pattern = "astan" /\ off = "Astana"
    \/ pattern = "almat" /\ off = "Almaty"

Capitalize(pattern) ==
    CASE pattern = "astan" -> "Astan"
      [] pattern = "almat" -> "Almat"
      [] OTHER             -> pattern

find_office(pattern) ==
    IF \E i \in 1..Len(Units) : NameContains(Units[i], pattern)
    THEN Units[CHOOSE i \in 1..Len(Units) :
                  /\ NameContains(Units[i], pattern)
                  /\ \A j \in 1..(i - 1) : ~NameContains(Units[j], pattern)]
    ELSE Capitalize(pattern)

astana_office == find_office("astan")
almaty_office == find_office("almat")

\* self._office_coords: the offices geocode knows, in units order.
office_coords == SelectSeq(Units, LAMBDA off : CallGeocode(<<off>>).value.known)

OfficeCoord(off) == geocode(off)

RECURSIVE NearestScan(_, _, _, _, _)
NearestScan(i, p, exclude, best_office, best_dist) ==
    IF i > Len(office_coords)
    THEN [office |-> best_office,
          dist |-> IF best_office = NoOffice THEN NoDist ELSE best_dist]
    ELSE LET off == office_coords[i]
             d == distance_km(p, OfficeCoord(off))
         IN  IF off = exclude THEN NearestScan(i + 1, p, exclude, best_office, best_dist)
             ELSE IF best_office = NoOffice \/ d < best_dist
                  THEN NearestScan(i + 1, p, exclude, off, d)
                  ELSE NearestScan(i + 1, p, exclude, best_office, best_dist)

nearest_office_by_coords(p, exclude) == NearestScan(1, p, exclude, NoOffice, 0)

\* A stable ascending sort (list.sort, mergesort): element j precedes
\* element i when it is smaller, or equal and earlier in the input.
SortSeqBy(seq, Less(_, _)) ==
    LET n == Len(seq)
        Before(j, i) == \/ Less(seq[j], seq[i])
                        \/ ~Less(seq[i], seq[j]) /\ j < i
        Pos(i) == 1 + Cardinality({j \in 1..n : j # i /\ Before(j, i)})
    IN  [k \in 1..n |-> seq[CHOOSE i \in 1..n : Pos(i) = k]]

\* Variant: the offices are sorted by descending distance.
offices_sorted_descending(p) ==
    SortSeqBy([i \in 1..Len(office_coords) |->
                  [office |-> office_coords[i],
                   dist |-> distance_km(p, OfficeCoord(office_coords[i]))]],
              LAMBDA x, y : x.dist > y.dist)

offices_sorted_by_distance(p) ==
    SortSeqBy([i \in 1..Len(office_coords) |->
                  [office |-> office_coords[i],
                   dist |-> distance_km(p, OfficeCoord(office_coords[i]))]],
              LAMBDA x, y : x.dist < y.dist)

(***************************************************************************)
(* engine.py: FIREEngine.get_office                                        *)
(***************************************************************************)
\* str(country).lower().strip() on the country strings of the model.
LowerCountry(c) ==
    CASE c = "Kazakhstan" -> "kazakhstan"
      [] c = "USA"        -> "usa"
      [] OTHER            -> c

ContainsKaz(country) == country \in {"kazakhstan", "kaz"}

Raised == [raised |-> TRUE]

get_office(ticket, ulc) ==
    LET country   == LowerCountry(ticket.country)
        by_coords == nearest_office_by_coords(ticket.coords, NoOffice)
        geo       == CallGeocode(<<ticket.city, ticket.region>>)
        by_dist   == nearest_office_by_coords(geo.value, NoOffice)
        city_norm == normalise(ticket.city)
        Match(i)  == LET off_norm == normalise(Units[i])
                     IN  /\ off_norm # "" /\ city_norm # ""
                         /\ (IsSubstring(off_norm, city_norm) \/ IsSubstring(city_norm, off_norm))
        is_kz     == ContainsKaz(country)
        is_unk    == country \in {"", "nan", "none"}
    IN  IF ticket.coords.known /\ by_coords.office # NoOffice
        THEN [raised |-> FALSE, office |-> by_coords.office, reason |-> "by_coords",
              dist |-> by_coords.dist, ulc |-> ulc]
        ELSE IF geo.raised THEN Raised
        ELSE IF geo.value.known /\ by_dist.office # NoOffice
        THEN [raised |-> FALSE, office |-> by_dist.office, reason |-> "by_distance",
              dist |-> by_dist.dist, ulc |-> ulc]
        ELSE IF \E i \in 1..Len(Units) : Match(i)
        THEN [raised |-> FALSE,
              office |-> Units[CHOOSE i \in 1..Len(Units) :
                                  Match(i) /\ \A j \in 1..(i - 1) : ~Match(j)],
              reason |-> "by_match", dist |-> NoDist, ulc |-> ulc]
        ELSE IF ~is_kz /\ ~is_unk
        THEN [raised |-> FALSE,
              office |-> <<astana_office, almaty_office>>[(ulc % 2) + 1],
              reason |-> "50_50", dist |-> NoDist, ulc |-> ulc + 1]
        ELSE [raised |-> FALSE, office |-> astana_office, reason |-> "default",
              dist |-> NoDist, ulc |-> ulc]

(***************************************************************************)
(* engine.py: filters and selection.  A pool is a set of row indices of    *)
(* managers_df.                                                            *)
(***************************************************************************)
\* Variant: the pool is not restricted to the office.
OfficePool_all(office) ==
    {m \in 1..Len(managers_df) : TRUE}

OfficePool(office) ==
    {m \in 1..Len(managers_df) : managers_df[m].office = office}

HasVip(m) == "VIP" \in managers_df[m].skills_set
HasLang(m, lang) == lang \in managers_df[m].skills_set
IsChief(m) == managers_df[m].is_chief

\* Variant: the language filter is not applied.
apply_filters_nolang(pool, segment, ai_type, ai_lang) ==
    LET s1 == IF segment \in {"VIP", "PRIORITY"} THEN {m \in pool : HasVip(m)} ELSE pool
    IN  IF ai_type = "ChangeOfData" THEN {m \in s1 : IsChief(m)} ELSE s1

\* Variant: the chief filter is applied to every category.
apply_filters_chief_always(pool, segment, ai_type, ai_lang) ==
    LET s1 == IF segment \in {"VIP", "PRIORITY"} THEN {m \in pool : HasVip(m)} ELSE pool
        s2 == {m \in s1 : IsChief(m)}
    IN  IF ai_lang \in {"KZ", "ENG"} THEN {m \in s2 : HasLang(m, ai_lang)} ELSE s2

apply_filters(pool, segment, ai_type, ai_lang) ==
    LET s1 == IF segment \in {"VIP", "PRIORITY"} THEN {m \in pool : HasVip(m)} ELSE pool
        s2 == IF ai_type = "ChangeOfData" THEN {m \in s1 : IsChief(m)} ELSE s1
    IN  IF ai_lang \in {"KZ", "ENG"} THEN {m \in s2 : HasLang(m, ai_lang)} ELSE s2

\* The rows of a pool as a sequence in frame order.
PoolSeq(pool) ==
    SelectSeq([m \in 1..Len(managers_df) |-> m], LAMBDA m : m \in pool)

SetMax(S) == CHOOSE x \in S : \A y \in S : y <= x
SetMin(S) == CHOOSE x \in S : \A y \in S : x <= y

RR_SPREAD == 3

\* Variant: the spread override returns without incrementing the load.
select_manager_noinc(subset, rr_key, ld, rr) ==
    LET sorted == SortSeqBy(PoolSeq(subset),
                     LAMBDA a, b : \/ ld[a] < ld[b]
                                   \/ /\ ld[a] = ld[b]
                                      /\ NameRank(managers_df[a].name)
                                           < NameRank(managers_df[b].name))
        loads  == {ld[m] : m \in subset}
        top2   == SubSeq(sorted, 1, Min2(2, Len(sorted)))
        idx    == IF rr_key \in DOMAIN rr THEN rr[rr_key] ELSE 0
        greedy == Len(sorted) > 1 /\ SetMax(loads) - SetMin(loads) > RR_SPREAD
        sel    == IF greedy THEN sorted[1] ELSE top2[(idx % Len(top2)) + 1]
    IN  [selected |-> sel,
         load |-> IF greedy THEN ld ELSE [ld EXCEPT ![sel] = @ + 1],
         rr |-> IF greedy THEN rr
                ELSE [k \in DOMAIN rr \cup {rr_key} |->
                         IF k = rr_key THEN idx + 1 ELSE rr[k]]]

\* Variant: no spread override, always the top-2 rotation.
select_manager_rr_only(subset, rr_key, ld, rr) ==
    LET sorted == SortSeqBy(PoolSeq(subset),
                     LAMBDA a, b : \/ ld[a] < ld[b]
                                   \/ /\ ld[a] = ld[b]
                                      /\ NameRank(managers_df[a].name)
                                           < NameRank(managers_df[b].name))
        top2   == SubSeq(sorted, 1, Min2(2, Len(sorted)))
        idx    == IF rr_key \in DOMAIN rr THEN rr[rr_key] ELSE 0
        sel    == top2[(idx % Len(top2)) + 1]
    IN  [selected |-> sel,
         load |-> [ld EXCEPT ![sel] = @ + 1],
         rr |-> [k \in DOMAIN rr \cup {rr_key} |->
                    IF k = rr_key THEN idx + 1 ELSE rr[k]]]

\* Variant: a fresh counter reads 1.
select_manager_from_one(subset, rr_key, ld, rr) ==
    LET sorted == SortSeqBy(PoolSeq(subset),
                     LAMBDA a, b : \/ ld[a] < ld[b]
                                   \/ /\ ld[a] = ld[b]
                                      /\ NameRank(managers_df[a].name)
                                           < NameRank(managers_df[b].name))
        loads  == {ld[m] : m \in subset}
        top2   == SubSeq(sorted, 1, Min2(2, Len(sorted)))
        idx    == IF rr_key \in DOMAIN rr THEN rr[rr_key] ELSE 1
        greedy == Len(sorted) > 1 /\ SetMax(loads) - SetMin(loads) > RR_SPREAD
        sel    == IF greedy THEN sorted[1] ELSE top2[(idx % Len(top2)) + 1]
    IN  [selected |-> sel,
         load |-> [ld EXCEPT ![sel] = @ + 1],
         rr |-> IF greedy THEN rr
                ELSE [k \in DOMAIN rr \cup {rr_key} |->
                         IF k = rr_key THEN idx + 1 ELSE rr[k]]]

\* Variant: the spread override advances the counter as well.
select_manager_override_counts(subset, rr_key, ld, rr) ==
    LET sorted == SortSeqBy(PoolSeq(subset),
                     LAMBDA a, b : \/ ld[a] < ld[b]
                                   \/ /\ ld[a] = ld[b]
                                      /\ NameRank(managers_df[a].name)
                                           < NameRank(managers_df[b].name))
        loads  == {ld[m] : m \in subset}
        top2   == SubSeq(sorted, 1, Min2(2, Len(sorted)))
        idx    == IF rr_key \in DOMAIN rr THEN rr[rr_key] ELSE 0
        greedy == Len(sorted) > 1 /\ SetMax(loads) - SetMin(loads) > RR_SPREAD
        sel    == IF greedy THEN sorted[1] ELSE top2[(idx % Len(top2)) + 1]
    IN  [selected |-> sel,
         load |-> [ld EXCEPT ![sel] = @ + 1],
         rr |-> [k \in DOMAIN rr \cup {rr_key} |->
                    IF k = rr_key THEN idx + 1 ELSE rr[k]]]

\* Variant: the counter is kept per candidate set, not per (office, language).
select_manager_key_by_subset(subset, rr_key, ld, rr) ==
    LET sorted == SortSeqBy(PoolSeq(subset),
                     LAMBDA a, b : \/ ld[a] < ld[b]
                                   \/ /\ ld[a] = ld[b]
                                      /\ NameRank(managers_df[a].name)
                                           < NameRank(managers_df[b].name))
        loads  == {ld[m] : m \in subset}
        top2   == SubSeq(sorted, 1, Min2(2, Len(sorted)))
        key    == <<rr_key[1], rr_key[2], subset>>
        idx    == IF key \in DOMAIN rr THEN rr[key] ELSE 0
        greedy == Len(sorted) > 1 /\ SetMax(loads) - SetMin(loads) > RR_SPREAD
        sel    == IF greedy THEN sorted[1] ELSE top2[(idx % Len(top2)) + 1]
    IN  [selected |-> sel,
         load |-> [ld EXCEPT ![sel] = @ + 1],
         rr |-> IF greedy THEN rr
                ELSE [k \in DOMAIN rr \cup {key} |->
                         IF k = key THEN idx + 1 ELSE rr[k]]]

select_manager(subset, rr_key, ld, rr) ==
    LET sorted == SortSeqBy(PoolSeq(subset),
                     LAMBDA a, b : \/ ld[a] < ld[b]
                                   \/ /\ ld[a] = ld[b]
                                      /\ NameRank(managers_df[a].name)
                                           < NameRank(managers_df[b].name))
        loads  == {ld[m] : m \in subset}
        top2   == SubSeq(sorted, 1, Min2(2, Len(sorted)))
        idx    == IF rr_key \in DOMAIN rr THEN rr[rr_key] ELSE 0
        greedy == Len(sorted) > 1 /\ SetMax(loads) - SetMin(loads) > RR_SPREAD
        sel    == IF greedy THEN sorted[1] ELSE top2[(idx % Len(top2)) + 1]
    IN  [selected |-> sel,
         load |-> [ld EXCEPT ![sel] = @ + 1],
         rr |-> IF greedy THEN rr
                ELSE [k \in DOMAIN rr \cup {rr_key} |->
                         IF k = rr_key THEN idx + 1 ELSE rr[k]]]

\* Variant: the ladder has the full pass only.
filter_passes_full_only(segment, ai_type, ai_lang) == <<"full">>

\* _filter_passes: the names of the passes, strictest first.
filter_passes(segment, ai_type, ai_lang) ==
    LET is_vip            == segment \in {"VIP", "PRIORITY"}
        is_chief_required == ai_type = "ChangeOfData"
        is_lang_required  == ai_lang \in {"KZ", "ENG"}
    IN  <<"full">>
        \o (IF is_lang_required THEN <<"no_lang">> ELSE << >>)
        \o (IF is_vip \/ is_chief_required THEN <<"vip_only">> ELSE << >>)
        \o <<"any_manager">>

\* The closure a pass name stands for, applied to a pool.
PassFilter(pass, pool, segment, ai_type, ai_lang) ==
    LET is_vip            == segment \in {"VIP", "PRIORITY"}
        is_chief_required == ai_type = "ChangeOfData"
    IN  CASE pass = "full"     -> apply_filters(pool, segment, ai_type, ai_lang)
          [] pass = "no_lang"  ->
                LET s1 == IF is_vip THEN {m \in pool : HasVip(m)} ELSE pool
                IN  IF is_chief_required THEN {m \in s1 : IsChief(m)} ELSE s1
          [] pass = "vip_only" ->
                IF ~is_vip THEN pool ELSE {m \in pool : HasVip(m)}
          [] pass = "any_manager" -> pool

(***************************************************************************)
(* engine.py: FIREEngine._find_nearest_manager                             *)
(***************************************************************************)
get_ticket_coords(ticket) ==
    IF ticket.coords.known
    THEN [raised |-> FALSE, value |-> ticket.coords]
    ELSE CallGeocode(<<ticket.city, ticket.region>>)

\* The (office, pass) pairs in the order the loops visit them.
\* Without coordinates: capitals outermost, passes innermost.
LadderNoCoords(current_office, passes) ==
    LET offs == SelectSeq(<<astana_office, almaty_office>>,
                          LAMBDA off : off # current_office)
        nP   == Len(passes)
    IN  [k \in 1..(Len(offs) * nP) |->
            [office |-> offs[((k - 1) \div nP) + 1], dist |-> NoDist,
             pass |-> passes[((k - 1) % nP) + 1]]]

\* Variant: the home office is not skipped.
LadderCoords_keep_home(p, current_office, passes) ==
    LET offs == offices_sorted_by_distance(p)
        nO   == Len(offs)
    IN  [k \in 1..(nO * Len(passes)) |->
            [office |-> offs[((k - 1) % nO) + 1].office,
             dist |-> offs[((k - 1) % nO) + 1].dist,
             pass |-> passes[((k - 1) \div nO) + 1]]]

\* Variant: offices by distance outermost, passes innermost.
LadderCoords_office_major(p, current_office, passes) ==
    LET offs == SelectSeq(offices_sorted_by_distance(p),
                          LAMBDA e : e.office # current_office)
        nP   == Len(passes)
    IN  [k \in 1..(Len(offs) * nP) |->
            [office |-> offs[((k - 1) \div nP) + 1].office,
             dist |-> offs[((k - 1) \div nP) + 1].dist,
             pass |-> passes[((k - 1) % nP) + 1]]]

\* With coordinates: passes outermost, offices by distance innermost.
LadderCoords(p, current_office, passes) ==
    LET offs == SelectSeq(offices_sorted_by_distance(p),
                          LAMBDA e : e.office # current_office)
        nO   == Len(offs)
    IN  [k \in 1..(nO * Len(passes)) |->
            [office |-> offs[((k - 1) % nO) + 1].office,
             dist |-> offs[((k - 1) % nO) + 1].dist,
             pass |-> passes[((k - 1) \div nO) + 1]]]

Ladder(coords, current_office, segment, ai_type, ai_lang) ==
    IF coords.known
    THEN LadderCoords(coords, current_office, filter_passes(segment, ai_type, ai_lang))
    ELSE LadderNoCoords(current_office, filter_passes(segment, ai_type, ai_lang))

LadderSub(e, segment, ai_type, ai_lang) ==
    PassFilter(e.pass, OfficePool(e.office), segment, ai_type, ai_lang)

NoManager == 0

\* The nested loops over offices and passes, from position k of the visiting
\* order: the first non-empty filtered pool is handed to select_manager.
RECURSIVE LadderWalk(_, _, _, _, _, _, _)
LadderWalk(ladder, k, segment, ai_type, ai_lang, ld, rr) ==
    IF k > Len(ladder)
    THEN [raised |-> FALSE, mgr |-> NoManager, office |-> NoOffice,
          dist |-> NoDist, pass |-> "", load |-> ld, rr |-> rr]
    ELSE IF LadderSub(ladder[k], segment, ai_type, ai_lang) # {}
    THEN LET sel == select_manager(LadderSub(ladder[k], segment, ai_type, ai_lang),
                                   <<ladder[k].office, ai_lang>>, ld, rr)
         IN  [raised |-> FALSE, mgr |-> sel.selected, office |-> ladder[k].office,
              dist |-> ladder[k].dist, pass |-> ladder[k].pass,
              load |-> sel.load, rr |-> sel.rr]
    ELSE LadderWalk(ladder, k + 1, segment, ai_type, ai_lang, ld, rr)

find_nearest_manager(ticket, current_office, segment, ai_type, ai_lang, ld, rr) ==
    LET c == get_ticket_coords(ticket) IN
    IF c.raised THEN Raised
    ELSE LadderWalk(Ladder(c.value, current_office, segment, ai_type, ai_lang),
                    1, segment, ai_type, ai_lang, ld, rr)

(***************************************************************************)
(* engine.py: one iteration of the loop of FIREEngine.distribute           *)
(***************************************************************************)
build_row(ticket, office, office_reason, distance_km_, manager, trace) ==
    [guid |-> ticket.guid, ai_type |-> ticket.ai_type, ai_lang |-> ticket.ai_lang,
     priority |-> ticket.priority, sentiment |-> ticket.sentiment,
     summary |-> ticket.summary, recommendation |-> ticket.recommendation,
     office |-> office, office_reason |-> office_reason,
     distance_km |-> distance_km_, manager |-> manager, trace |-> trace]

\* The trace dict as first built, before any manager is looked for.
initial_trace(home, pool) ==
    [home_office |-> home.office, office_reason |-> home.reason,
     distance_km |-> home.dist, initial_pool |-> Cardinality(pool),
     escalation_reason |-> "", escalation |-> FALSE,
     redirected_to_office |-> NoOffice, selected |-> ""]

\* The home office has a qualified manager.
assign_home(ticket, home, trace, sel) ==
    [raised |-> FALSE,
     row |-> build_row(ticket, home.office, home.reason, home.dist,
                       managers_df[sel.selected].name,
                       [trace EXCEPT !.selected = managers_df[sel.selected].name]),
     load |-> sel.load, rr |-> sel.rr, ulc |-> home.ulc]

\* Variant: a redirected row is flagged as an escalation too.
assign_fallback_flagged(ticket, home, trace, near, ld, rr) ==
    IF near.raised THEN Raised
    ELSE IF near.mgr # NoManager
    THEN [raised |-> FALSE,
          row |-> build_row(ticket, near.office, "nearest_office", near.dist,
                            managers_df[near.mgr].name,
                            [trace EXCEPT !.redirected_to_office = near.office,
                                          !.escalation = TRUE,
                                          !.selected = managers_df[near.mgr].name]),
          load |-> near.load, rr |-> near.rr, ulc |-> home.ulc]
    ELSE [raised |-> FALSE,
          row |-> build_row(ticket, home.office, home.reason, home.dist, SENTINEL,
                            [trace EXCEPT !.escalation = TRUE]),
          load |-> ld, rr |-> rr, ulc |-> home.ulc]

\* The home office has none: near is what _find_nearest_manager returned.
assign_fallback(ticket, home, trace, near, ld, rr) ==
    IF near.raised THEN Raised
    ELSE IF near.mgr # NoManager
    THEN [raised |-> FALSE,
          row |-> build_row(ticket, near.office, "nearest_office", near.dist,
                            managers_df[near.mgr].name,
                            [trace EXCEPT !.redirected_to_office = near.office,
                                          !.selected = managers_df[near.mgr].name]),
          load |-> near.load, rr |-> near.rr, ulc |-> home.ulc]
    ELSE [raised |-> FALSE,
          row |-> build_row(ticket, home.office, home.reason, home.dist, SENTINEL,
                            [trace EXCEPT !.escalation = TRUE]),
          load |-> ld, rr |-> rr, ulc |-> home.ulc]

\* The body of the loop once get_office has returned home.
assign_from(ticket, home, ld, rr) ==
    IF home.raised THEN Raised
    ELSE IF apply_filters(OfficePool(home.office), ticket.segment,
                          ticket.ai_type, ticket.ai_lang) # {}
    THEN assign_home(ticket, home,
                     initial_trace(home, OfficePool(home.office)),
                     select_manager(apply_filters(OfficePool(home.office), ticket.segment,
                                                  ticket.ai_type, ticket.ai_lang),
                                    <<home.office, ticket.ai_lang>>, ld, rr))
    ELSE assign_fallback(ticket, home,
                         [initial_trace(home, OfficePool(home.office))
                             EXCEPT !.escalation_reason = "no_suitable_manager_in_home_office"],
                         find_nearest_manager(ticket, home.office, ticket.segment,
                                              ticket.ai_type, ticket.ai_lang, ld, rr),
                         ld, rr)

distribute_one(ticket, ld, rr, ulc) ==
    assign_from(ticket, get_office(ticket, ulc), ld, rr)

(***************************************************************************)
(* Inputs of a run: the ticket rows and the manager frame read from the    *)
(* database (run.py:52-54).                                                *)
(***************************************************************************)
TicketRow(city, country, segment, description) ==
    [guid |-> 0, description |-> description, city |-> city, region |-> "",
     country |-> country, segment |-> segment]

TicketKinds ==
    { TicketRow("Astana", "Kazakhstan", "MASS", "consult_ru"),
      TicketRow("Astana", "Kazakhstan", "VIP", "change_kz"),
      TicketRow("Oral", "Kazakhstan", "MASS", "consult_eng"),
      TicketRow("Tashkent", "USA", "MASS", "consult_ru"),
      TicketRow("Astana", "Kazakhstan", "vip", "fraud_ru") }

Mgr(name, office, skills, chief, ld) ==
    [name |-> name, office |-> office, skills_set |-> skills,
     is_chief |-> chief, load |-> ld]

Roster1 ==
    << Mgr("L2", "Astana", {}, FALSE, 3),
       Mgr("L1", "Astana", {}, FALSE, 3),
       Mgr("L3", "Astana", {"VIP"}, FALSE, 5),
       Mgr("M1", "Almaty", {"VIP", "KZ"}, TRUE, 2),
       Mgr("M2", "Almaty", {"VIP"}, TRUE, 4) >>

Roster2 ==
    << Mgr("L1", "Astana", {}, FALSE, 1),
       Mgr("L2", "Astana", {"VIP"}, FALSE, 6),
       Mgr("L3", "Astana", {"VIP"}, FALSE, 5),
       Mgr("M1", "Almaty", {"ENG"}, FALSE, 0),
       Mgr("M2", "Oral", {"VIP"}, TRUE, 0) >>

Roster3 ==
    << Mgr("L1", "Astana", {"VIP"}, TRUE, 0),
       Mgr("L2", "Astana", {"KZ"}, FALSE, 2) >>

Rosters == {Roster1, Roster2, Roster3}

(***************************************************************************)
(* ai/llm_analyzer.py.  A response is what client.chat.completions.create  *)
(* gave back: an exception, or a content string which json.loads rejects   *)
(* or turns into the dict `data`.  A JSON number is kept in tenths with    *)
(* its Python type.                                                        *)
(***************************************************************************)
VALID_TYPES == {"Complaint", "ChangeOfData", "Consultation", "Claim",
                "AppFailure", "Fraud", "Spam"}
VALID_SENTIMENTS == {"POS", "NEU", "NEG"}
VALID_LANGS == {"RU", "ENG", "KZ"}

JsonInt(n) == [kind |-> "int", tenths |-> 10 * n]
JsonFloat(t) == [kind |-> "float", tenths |-> t]

JsonData(ai_type, sentiment, ai_lang, priority, summary, recommendation) ==
    [ai_type |-> ai_type, sentiment |-> sentiment, ai_lang |-> ai_lang,
     priority |-> priority, summary |-> summary,
     recommendation |-> recommendation, city |-> JsonNull]

NoData == JsonData(JsonNull, JsonNull, JsonNull, [kind |-> "null", tenths |-> 0],
                   JsonNull, JsonNull)

Response(id, error, parses, data) ==
    [id |-> id, error |-> error, parses |-> parses, data |-> data]

\* No request was sent.
NoCall == Response("no_call", FALSE, FALSE, NoData)

LLMResponses ==
    { Response("full", FALSE, TRUE,
               JsonData("ChangeOfData", "NEG", "KZ", JsonInt(9), "llm_summary", "llm_rec")),
      Response("long", FALSE, TRUE,
               JsonData("Consultation", "NEU", "RU", JsonFloat(97),
                        "llm_summary_long", "llm_rec_long")),
      Response("no_summary", FALSE, TRUE,
               JsonData("Consultation", "NEU", "RU", JsonInt(1), "", JsonNull)),
      Response("priority_11", FALSE, TRUE,
               JsonData("Fraud", "NEG", "RU", JsonInt(11), "llm_summary", "llm_rec")),
      Response("not_json", FALSE, FALSE, NoData),
      Response("timeout", TRUE, FALSE, NoData) }

\* int(priority): truncation toward zero.
IntOf(priority) ==
    IF priority.tenths >= 0 THEN priority.tenths \div 10
    ELSE 0 - ((0 - priority.tenths) \div 10)

validate(data) ==
    /\ data.ai_type \in VALID_TYPES
    /\ data.sentiment \in VALID_SENTIMENTS
    /\ data.ai_lang \in VALID_LANGS
    /\ data.priority.kind \in {"int", "float"}
    /\ 1 <= IntOf(data.priority) /\ IntOf(data.priority) <= 10

\* The responses the call of analyze_with_llm can receive: none without a
\* body or without a client (llm_analyzer.py:81-86, llm_client.py:24-27).
LLMCall(text) ==
    IF text = "" \/ api_key = "" THEN {NoCall} ELSE LLMResponses

\* The value analyze_with_llm returns on the response it received.
analyze_with_llm(text, response) ==
    IF response = NoCall \/ response.error \/ ~response.parses
    THEN NoLLM
    ELSE IF ~validate(response.data) THEN NoLLM
    ELSE [present |-> TRUE, ai_type |-> response.data.ai_type,
          ai_lang |-> response.data.ai_lang, sentiment |-> response.data.sentiment,
          priority |-> IntOf(response.data.priority),
          summary |-> response.data.summary,
          recommendation |-> response.data.recommendation,
          city |-> response.data.city]

(***************************************************************************)
(* State machine                                                           *)
(***************************************************************************)
N == Len(tickets_df)

\* Python None for the global _client and for _last_key.
NoClient == 0
NoKey == "None"

\* llm_client.py after import: _client = None, _last_key = None, and no
\* worker has called get_client.
ClientModuleLoaded ==
    /\ client = NoClient
    /\ last_key = NoKey
    /\ gc_pc = [i \in 1..Len(tickets_df) |-> "idle"]
    /\ gc_ret = [i \in 1..Len(tickets_df) |-> NoClient]
    /\ constructed = {}

InitialLoad == [m \in 1..Len(managers_df) |-> managers_df[m].load]

Init ==
    /\ \E n \in 1..MaxTickets :
         \E kinds \in [1..n -> TicketKinds] :
            tickets_df = [i \in 1..n |-> [kinds[i] EXCEPT !.guid = i]]
    /\ managers_df \in Rosters
    /\ api_key = ""
    /\ wstate = [i \in 1..Len(tickets_df) |-> "pending"]
    /\ llm_response = [i \in 1..Len(tickets_df) |-> NoCall]
    /\ future_result = [i \in 1..Len(tickets_df) |-> NoRow]
    /\ enriched_rows = [i \in 1..Len(tickets_df) |-> NoRow]
    /\ pc = "enrich"
    /\ load = [m \in 1..Len(managers_df) |-> managers_df[m].load]
    /\ rr_counters = << >>
    /\ unknown_loc_counter = 0
    /\ results = << >>
    /\ ClientModuleLoaded

\* A pool thread takes the oldest queued task (run.py:68-73).
Start(i) ==
    /\ pc = "enrich"
    /\ wstate[i] = "pending"
    /\ \A j \in 1..(i - 1) : wstate[j] # "pending"
    /\ Cardinality({j \in 1..N : wstate[j] = "running"}) < MAX_WORKERS
    /\ wstate' = [wstate EXCEPT ![i] = "running"]
    /\ UNCHANGED clientVars
    /\ UNCHANGED <<tickets_df, managers_df, api_key, llm_response, future_result, enriched_rows,
                   pc, load, rr_counters, unknown_loc_counter, results>>

\* The worker returns from enrich_one; the future holds the merged row.
Finish(i) ==
    /\ pc = "enrich"
    /\ wstate[i] = "running"
    /\ \E response \in LLMCall(tickets_df[i].description) :
          /\ llm_response' = [llm_response EXCEPT ![i] = response]
          /\ future_result' =
                [future_result EXCEPT ![i] =
                    enrich_one(tickets_df[i],
                               analyze_with_llm(tickets_df[i].description, response))]
    /\ wstate' = [wstate EXCEPT ![i] = "done"]
    /\ UNCHANGED clientVars
    /\ UNCHANGED <<tickets_df, managers_df, api_key, enriched_rows,
                   pc, load, rr_counters, unknown_loc_counter, results>>

\* enricher.enrich raises in the worker after the LLM step; enrich_one
\* catches the exception and the future holds the defaulted row.
FinishExcept(i) ==
    /\ pc = "enrich"
    /\ wstate[i] = "running"
    /\ \E response \in LLMCall(tickets_df[i].description) :
          llm_response' = [llm_response EXCEPT ![i] = response]
    /\ future_result' = [future_result EXCEPT ![i] = enrich_one_except(tickets_df[i])]
    /\ wstate' = [wstate EXCEPT ![i] = "done"]
    /\ UNCHANGED clientVars
    /\ UNCHANGED <<tickets_df, managers_df, api_key, enriched_rows,
                   pc, load, rr_counters, unknown_loc_counter, results>>

\* Variant: results are appended in completion order.
Collect_completion_order(i) ==
    /\ pc = "enrich"
    /\ wstate[i] = "done"
    /\ LET slot == Cardinality({j \in 1..N : wstate[j] = "collected"}) + 1
       IN  enriched_rows' = [enriched_rows EXCEPT ![slot] = future_result[i]]
    /\ wstate' = [wstate EXCEPT ![i] = "collected"]
    /\ UNCHANGED clientVars
    /\ UNCHANGED <<tickets_df, managers_df, api_key, llm_response, future_result,
                   pc, load, rr_counters, unknown_loc_counter, results>>

\* as_completed yields a finished future; main stores it at its index.
Collect(i) ==
    /\ pc = "enrich"
    /\ wstate[i] = "done"
    /\ enriched_rows' = [enriched_rows EXCEPT ![i] = future_result[i]]
    /\ wstate' = [wstate EXCEPT ![i] = "collected"]
    /\ UNCHANGED clientVars
    /\ UNCHANGED <<tickets_df, managers_df, api_key, llm_response, future_result,
                   pc, load, rr_counters, unknown_loc_counter, results>>

AllCollected == \A i \in 1..N : wstate[i] = "collected"

\* Variant: routing starts as soon as the first result has been collected.
ConstructEngine_early ==
    /\ pc = "enrich"
    /\ \E i \in 1..N : wstate[i] = "collected"
    /\ pc' = "routing"
    /\ load' = InitialLoad
    /\ rr_counters' = << >>
    /\ unknown_loc_counter' = 0
    /\ results' = << >>
    /\ UNCHANGED clientVars
    /\ UNCHANGED <<tickets_df, managers_df, api_key, llm_response, wstate, future_result, enriched_rows>>

\* The as_completed loop is exhausted, the executor is shut down and the
\* engine is constructed (run.py:84-89, engine.py:58-81).
ConstructEngine ==
    /\ pc = "enrich"
    /\ AllCollected
    /\ pc' = "routing"
    /\ load' = InitialLoad
    /\ rr_counters' = << >>
    /\ unknown_loc_counter' = 0
    /\ results' = << >>
    /\ UNCHANGED clientVars
    /\ UNCHANGED <<tickets_df, managers_df, api_key, llm_response, wstate, future_result, enriched_rows>>

\* One iteration of the loop of distribute over self.tickets.
RouteTicket ==
    /\ pc = "routing"
    /\ Len(results) < N
    /\ \E r \in {distribute_one(prepare_ticket(enriched_rows[Len(results) + 1]),
                                load, rr_counters, unknown_loc_counter)} :
          IF r.raised
          THEN /\ pc' = "raised"
               /\ UNCHANGED <<load, rr_counters, unknown_loc_counter, results>>
          ELSE /\ results' = Append(results, r.row)
               /\ load' = r.load
               /\ rr_counters' = r.rr
               /\ unknown_loc_counter' = r.ulc
               /\ pc' = pc
    /\ UNCHANGED clientVars
    /\ UNCHANGED <<tickets_df, managers_df, api_key, llm_response, wstate, future_result, enriched_rows>>

\* distribute returns the frame of results.
Return ==
    /\ pc = "routing"
    /\ Len(results) = N
    /\ pc' = "done"
    /\ UNCHANGED clientVars
    /\ UNCHANGED <<tickets_df, managers_df, api_key, llm_response, wstate, future_result,
                   enriched_rows, load, rr_counters, unknown_loc_counter, results>>

Next ==
    \/ \E i \in 1..N : Start(i)
    \/ \E i \in 1..N : Finish(i)
    \/ \E i \in 1..N : Collect(i)
    \/ ConstructEngine
    \/ RouteTicket
    \/ Return

Spec == Init /\ [][Next]_vars

(***************************************************************************)
(* The same pipeline with a credential present or absent, bodies and       *)
(* segments that exercise every branch of the enricher, and enrichments    *)
(* that raise.                                                             *)
(***************************************************************************)
EnrichKinds ==
    { TicketRow("Astana", "Kazakhstan", "PRIORITY", "consult_ru"),
      TicketRow("Astana", "Kazakhstan", "vip", "fraud_ru"),
      TicketRow("Astana", "Kazakhstan", "MASS", "long_ru"),
      TicketRow("Oral", "Kazakhstan", "MASS", "") }

InitEnrich ==
    /\ \E n \in 1..MaxEnrichTickets :
         \E kinds \in [1..n -> EnrichKinds] :
            tickets_df = [i \in 1..n |-> [kinds[i] EXCEPT !.guid = i]]
    /\ managers_df = Roster1
    /\ api_key \in {"", "sk-test"}
    /\ wstate = [i \in 1..Len(tickets_df) |-> "pending"]
    /\ llm_response = [i \in 1..Len(tickets_df) |-> NoCall]
    /\ future_result = [i \in 1..Len(tickets_df) |-> NoRow]
    /\ enriched_rows = [i \in 1..Len(tickets_df) |-> NoRow]
    /\ pc = "enrich"
    /\ load = [m \in 1..Len(managers_df) |-> managers_df[m].load]
    /\ rr_counters = << >>
    /\ unknown_loc_counter = 0
    /\ results = << >>
    /\ ClientModuleLoaded

NextEnrich ==
    \/ Next
    \/ \E i \in 1..N : FinishExcept(i)

SpecEnrich == InitEnrich /\ [][NextEnrich]_vars

(***************************************************************************)
(* The pipeline without a credential on a frame whose capital offices      *)
(* share round-robin keys between home tickets and redirected tickets.     *)
(***************************************************************************)
CapitalKinds ==
    { TicketRow("Almaty", "Kazakhstan", "MASS", "consult_ru"),
      TicketRow("Astana", "Kazakhstan", "VIP", "fraud_ru"),
      TicketRow("Astana", "Kazakhstan", "MASS", "consult_ru") }

Roster4 ==
    << Mgr("L1", "Astana", {}, FALSE, 0),
       Mgr("L2", "Astana", {}, FALSE, 5),
       Mgr("M1", "Almaty", {"VIP"}, FALSE, 2),
       Mgr("M2", "Almaty", {"VIP"}, FALSE, 4),
       Mgr("M3", "Almaty", {}, FALSE, 3) >>

InitCapital ==
    /\ \E n \in 1..MaxTickets :
         \E kinds \in [1..n -> CapitalKinds] :
            tickets_df = [i \in 1..n |-> [kinds[i] EXCEPT !.guid = i]]
    /\ managers_df = Roster4
    /\ api_key = ""
    /\ wstate = [i \in 1..Len(tickets_df) |-> "pending"]
    /\ llm_response = [i \in 1..Len(tickets_df) |-> NoCall]
    /\ future_result = [i \in 1..Len(tickets_df) |-> NoRow]
    /\ enriched_rows = [i \in 1..Len(tickets_df) |-> NoRow]
    /\ pc = "enrich"
    /\ load = [m \in 1..Len(managers_df) |-> managers_df[m].load]
    /\ rr_counters = << >>
    /\ unknown_loc_counter = 0
    /\ results = << >>
    /\ ClientModuleLoaded

SpecCapital == InitCapital /\ [][Next]_vars

(***************************************************************************)
(* ai/llm_client.py.  The pool threads call get_client from               *)
(* analyze_with_llm without a lock; a thread can be suspended between any  *)
(* two of the steps below.  The client a call constructs is identified by  *)
(* the worker that constructed it.                                         *)
(***************************************************************************)
ClientKinds ==
    { TicketRow("Astana", "Kazakhstan", "MASS", "consult_ru"),
      TicketRow("Oral", "Kazakhstan", "MASS", "") }

InitClient ==
    /\ \E n \in 1..MaxCalls :
         \E kinds \in [1..n -> ClientKinds] :
            tickets_df = [i \in 1..n |-> [kinds[i] EXCEPT !.guid = i]]
    /\ managers_df = Roster1
    /\ api_key \in {"", "sk-test"}
    /\ wstate = [i \in 1..Len(tickets_df) |-> "pending"]
    /\ llm_response = [i \in 1..Len(tickets_df) |-> NoCall]
    /\ future_result = [i \in 1..Len(tickets_df) |-> NoRow]
    /\ enriched_rows = [i \in 1..Len(tickets_df) |-> NoRow]
    /\ pc = "enrich"
    /\ load = [m \in 1..Len(managers_df) |-> managers_df[m].load]
    /\ rr_counters = << >>
    /\ unknown_loc_counter = 0
    /\ results = << >>
    /\ ClientModuleLoaded

pipelineVars == <<tickets_df, managers_df, api_key, wstate, llm_response, future_result,
                  enriched_rows, pc, load, rr_counters, unknown_loc_counter, results>>

\* Worker i, inside analyze_with_llm on a non-empty body, enters get_client:
\* without a credential it clears the globals and returns None; otherwise it
\* tests the cache (llm_client.py:22-31).
GetClientEnter(i) ==
    /\ pc = "enrich"
    /\ wstate[i] = "running"
    /\ gc_pc[i] = "idle"
    /\ tickets_df[i].description # ""
    /\ IF api_key = ""
       THEN /\ client' = NoClient
            /\ last_key' = NoKey
            /\ gc_ret' = [gc_ret EXCEPT ![i] = NoClient]
            /\ gc_pc' = [gc_pc EXCEPT ![i] = "done"]
       ELSE /\ gc_pc' = [gc_pc EXCEPT ![i] =
                            IF client # NoClient /\ last_key = api_key
                            THEN "hit" ELSE "construct"]
            /\ UNCHANGED <<client, last_key, gc_ret>>
    /\ UNCHANGED <<constructed, pipelineVars>>

\* return _client on a cache hit (llm_client.py:31).
GetClientHit(i) ==
    /\ gc_pc[i] = "hit"
    /\ gc_ret' = [gc_ret EXCEPT ![i] = client]
    /\ gc_pc' = [gc_pc EXCEPT ![i] = "done"]
    /\ UNCHANGED <<client, last_key, constructed, pipelineVars>>

\* OpenAI(api_key=api_key, base_url=base_url) returns a new client
\* (llm_client.py:33-36, right-hand side).
GetClientConstruct(i) ==
    /\ gc_pc[i] = "construct"
    /\ constructed' = constructed \cup {i}
    /\ gc_pc' = [gc_pc EXCEPT ![i] = "store"]
    /\ UNCHANGED <<client, last_key, gc_ret, pipelineVars>>

\* _client = <the new client> (llm_client.py:36).
GetClientStore(i) ==
    /\ gc_pc[i] = "store"
    /\ client' = i
    /\ gc_pc' = [gc_pc EXCEPT ![i] = "store_key"]
    /\ UNCHANGED <<last_key, gc_ret, constructed, pipelineVars>>

\* _last_key = api_key (llm_client.py:37).
GetClientStoreKey(i) ==
    /\ gc_pc[i] = "store_key"
    /\ last_key' = api_key
    /\ gc_pc' = [gc_pc EXCEPT ![i] = "return"]
    /\ UNCHANGED <<client, gc_ret, constructed, pipelineVars>>

\* return _client after the construction (llm_client.py:38-39).
GetClientReturn(i) ==
    /\ gc_pc[i] = "return"
    /\ gc_ret' = [gc_ret EXCEPT ![i] = client]
    /\ gc_pc' = [gc_pc EXCEPT ![i] = "done"]
    /\ UNCHANGED <<client, last_key, constructed, pipelineVars>>

NextClient ==
    \/ \E i \in 1..N : Start(i)
    \/ \E i \in 1..N : GetClientEnter(i)
    \/ \E i \in 1..N : GetClientHit(i)
    \/ \E i \in 1..N : GetClientConstruct(i)
    \/ \E i \in 1..N : GetClientStore(i)
    \/ \E i \in 1..N : GetClientStoreKey(i)
    \/ \E i \in 1..N : GetClientReturn(i)

SpecClient == InitClient /\ [][NextClient]_vars

(***************************************************************************)
(* Properties.  The predicates below are stated on the rows and on the     *)
(* manager frame directly, not through the operators of the router.        *)
(***************************************************************************)
\* The prepared ticket that produced the k-th row of results.
TicketOf(k) == prepare_ticket(enriched_rows[k])

MgrByName(name) == CHOOSE m \in 1..Len(managers_df) : managers_df[m].name = name

Escalated(k) == results[k].manager = SENTINEL

NeedsVip(t) == t.segment \in {"VIP", "PRIORITY"}
NeedsChief(t) == t.ai_type = "ChangeOfData"
NeedsLang(t) == t.ai_lang \in {"KZ", "ENG"}

\* Manager m satisfies every filter ticket t requires.
Qualifies(m, t) ==
    /\ NeedsVip(t) => "VIP" \in managers_df[m].skills_set
    /\ NeedsChief(t) => managers_df[m].is_chief
    /\ NeedsLang(t) => t.ai_lang \in managers_df[m].skills_set

\* Offices the fallback of a ticket with coordinates can reach.
OtherOffices(home) ==
    {Units[i] : i \in {j \in 1..Len(Units) : Units[j] # home /\ geocode(Units[j]).known}}

RECURSIVE SumLoads(_, _)
SumLoads(f, n) == IF n = 0 THEN 0 ELSE f[n] + SumLoads(f, n - 1)

\* C1: distribute terminates normally and returns exactly one assignment per
\* ticket, carrying the ticket's guid, also for tickets without coordinates
\* and tickets whose city cannot be geocoded.
C1_OneAssignmentPerTicket ==
    /\ pc # "raised"
    /\ pc = "done" =>
          /\ Len(results) = N
          /\ \A i \in 1..N : results[i].guid = tickets_df[i].guid

\* C2 (as claimed): every non-sentinel assignment names a manager who
\* satisfies every filter the ticket requires, also when the manager was
\* chosen through the nearest-office fallback.
C2_RequiredFiltersAlways ==
    \A k \in 1..Len(results) :
        ~Escalated(k) => Qualifies(MgrByName(results[k].manager), TicketOf(k))

\* C2 (amended): a manager chosen in the home office satisfies every filter
\* the ticket requires; a manager chosen through the nearest-office fallback
\* for a ticket with coordinates satisfies them all whenever some other
\* office has a manager who does (otherwise the ladder relaxes them).
C2_RequiredFiltersUnlessRelaxed ==
    \A k \in 1..Len(results) :
        ~Escalated(k) =>
            LET t == TicketOf(k)
                m == MgrByName(results[k].manager)
                home == results[k].trace.home_office
            IN  /\ results[k].office_reason # "nearest_office" => Qualifies(m, t)
                /\ ( /\ results[k].office_reason = "nearest_office"
                     /\ t.coords.known
                     /\ \E m2 \in 1..Len(managers_df) :
                           /\ managers_df[m2].office \in OtherOffices(home)
                           /\ Qualifies(m2, t) )
                   => Qualifies(m, t)

\* Witness C2: one ticket with required filters served at home, and one
\* redirected by the fallback to a fully qualified manager of another office.
C2_Witness ==
    \E k, j \in 1..Len(results) :
        /\ ~Escalated(k) /\ results[k].office_reason = "by_coords"
        /\ NeedsVip(TicketOf(k))
        /\ ~Escalated(j) /\ results[j].office_reason = "nearest_office"
        /\ NeedsLang(TicketOf(j)) /\ NeedsChief(TicketOf(j)) /\ NeedsVip(TicketOf(j))
        /\ Qualifies(MgrByName(results[j].manager), TicketOf(j))

\* C3: in every non-sentinel assignment the named manager's home office is
\* the assignment's office, in the home office and after a redirect.
C3_ManagerOfficeIsAssignmentOffice ==
    \A k \in 1..Len(results) :
        ~Escalated(k) =>
            managers_df[MgrByName(results[k].manager)].office = results[k].office

\* Witness C3: a run with one home-office pick and one redirected pick.
C3_Witness ==
    \E k, j \in 1..Len(results) :
        /\ ~Escalated(k) /\ results[k].office_reason = "by_coords"
        /\ ~Escalated(j) /\ results[j].office_reason = "nearest_office"
        /\ results[j].office # results[j].trace.home_office

\* C4: after any prefix, the loads have grown in total by the number of
\* non-sentinel assignments; each non-sentinel assignment raises the load of
\* the manager it names by one and no other, a sentinel assignment none.
C4_LoadAccounting ==
    /\ [](SumLoads(load, Len(managers_df)) - SumLoads(InitialLoad, Len(managers_df))
            = Cardinality({k \in 1..Len(results) : ~Escalated(k)}))
    /\ [][results' # results =>
            LET a == results'[Len(results')]
            IN  IF a.manager = SENTINEL
                THEN load' = load
                ELSE load' = [load EXCEPT ![MgrByName(a.manager)] = @ + 1]]_vars

\* Witness C4: a finished run with a sentinel assignment and a real one.
C4_Witness ==
    /\ pc = "done"
    /\ \E k, j \in 1..Len(results) : Escalated(k) /\ ~Escalated(j)

\* The filters a relaxation pass keeps, strictest pass first.
PassOrder(t) ==
    <<"full">>
    \o (IF NeedsLang(t) THEN <<"no_lang">> ELSE << >>)
    \o (IF NeedsVip(t) \/ NeedsChief(t) THEN <<"vip_only">> ELSE << >>)
    \o <<"any_manager">>

PassQualifies(pass, m, t) ==
    CASE pass = "full"        -> Qualifies(m, t)
      [] pass = "no_lang"     -> /\ NeedsVip(t) => "VIP" \in managers_df[m].skills_set
                                 /\ NeedsChief(t) => managers_df[m].is_chief
      [] pass = "vip_only"    -> NeedsVip(t) => "VIP" \in managers_df[m].skills_set
      [] pass = "any_manager" -> TRUE

PassSet(pass, office, t) ==
    {m \in 1..Len(managers_df) :
        managers_df[m].office = office /\ PassQualifies(pass, m, t)}

\* The candidate set an assignment was selected from: the qualified managers
\* of the home office, or after a redirect the set of the strictest pass
\* that is non-empty in the office the ticket was redirected to.
CandidatesFor(a, t) ==
    IF a.office_reason # "nearest_office"
    THEN PassSet("full", a.office, t)
    ELSE LET ps == PassOrder(t)
             i  == CHOOSE i \in 1..Len(ps) :
                      /\ PassSet(ps[i], a.office, t) # {}
                      /\ \A j \in 1..(i - 1) : PassSet(ps[j], a.office, t) = {}
         IN  PassSet(ps[i], a.office, t)

Spread(S, ld) ==
    LET ls == {ld[m] : m \in S}
    IN  (CHOOSE x \in ls : \A y \in ls : y <= x) - (CHOOSE x \in ls : \A y \in ls : x <= y)

\* The first manager of S in ascending (load, name) order.
Least(S, ld) ==
    CHOOSE m \in S : \A x \in S \ {m} :
        \/ ld[m] < ld[x]
        \/ ld[m] = ld[x] /\ NameRank(managers_df[m].name) < NameRank(managers_df[x].name)

\* Loads before the k-th assignment was made.
LoadBefore(k) ==
    [m \in 1..Len(managers_df) |->
        InitialLoad[m]
        + Cardinality({j \in 1..(k - 1) : results[j].manager = managers_df[m].name})]

\* C5: with candidates L1 (load 3), L2 (load 3), L3 (load 5) and a fresh
\* counter, three successive tickets under the same (office, language) key
\* are assigned to L1, then L2, then L1.
C5_TopTwoAlternate ==
    ( /\ managers_df = Roster1
      /\ Len(results) = 3
      /\ \A k \in 1..3 :
            /\ TicketOf(k).city = "Astana" /\ TicketOf(k).segment = "MASS"
            /\ TicketOf(k).ai_lang = "RU" /\ TicketOf(k).ai_type = "Consultation" )
    => <<results[1].manager, results[2].manager, results[3].manager>> = <<"L1", "L2", "L1">>

\* C6: a selection from a candidate set whose load spread exceeds 3 takes
\* the first candidate in ascending (load, name) order, a manager of minimum
\* load, whatever the round-robin counter of the key.
C6_SpreadOverridePicksLeast ==
    [][results' # results =>
         LET k == Len(results')
             a == results'[k]
             S == CandidatesFor(a, TicketOf(k))
         IN  (a.manager # SENTINEL /\ Spread(S, load) > 3) =>
                /\ a.manager = managers_df[Least(S, load)].name
                /\ \A m \in S : load[MgrByName(a.manager)] <= load[m]]_vars

\* Witness C6: the last assignment was selected from at least two candidates
\* with spread above 3 while the counter of its key was odd, so that the
\* top-2 rotation would have taken the second candidate.
C6_Witness ==
    /\ Len(results) >= 1
    /\ LET k == Len(results)
           S == CandidatesFor(results[k], TicketOf(k))
           key == <<results[k].office, results[k].ai_lang>>
       IN  /\ ~Escalated(k)
           /\ Cardinality(S) >= 2
           /\ Spread(S, LoadBefore(k)) > 3
           /\ key \in DOMAIN rr_counters
           /\ rr_counters[key] % 2 = 1

IsVipKzChange(t) ==
    t.segment = "VIP" /\ t.ai_lang = "KZ" /\ t.ai_type = "ChangeOfData"

HasAllThree(m) ==
    /\ "VIP" \in managers_df[m].skills_set
    /\ "KZ" \in managers_df[m].skills_set
    /\ managers_df[m].is_chief

\* C7 (as claimed): a VIP / KZ / ChangeOfData ticket is escalated whenever no
\* manager of any office has VIP skill, KZ skill and chief, whatever other
\* managers exist.
C7_EscalatesWithoutFullMatch ==
    \A k \in 1..Len(results) :
        ( /\ IsVipKzChange(TicketOf(k))
          /\ ~\E m \in 1..Len(managers_df) : HasAllThree(m) )
        => (Escalated(k) /\ results[k].trace.escalation)

\* C7 (amended): the assignment of a VIP / KZ / ChangeOfData ticket is the
\* sentinel with trace.escalation = true whenever no manager of its home
\* office has all three and no other office has any manager.
C7_EscalatesWhenOtherOfficesEmpty ==
    \A k \in 1..Len(results) :
        LET home == results[k].trace.home_office IN
        ( /\ IsVipKzChange(TicketOf(k))
          /\ ~\E m \in 1..Len(managers_df) :
                managers_df[m].office = home /\ HasAllThree(m)
          /\ ~\E m \in 1..Len(managers_df) :
                managers_df[m].office \in OtherOffices(home) )
        => (Escalated(k) /\ results[k].trace.escalation)

\* Witness C7: a VIP / KZ / ChangeOfData ticket was escalated.
C7_Witness ==
    \E k \in 1..Len(results) :
        /\ IsVipKzChange(TicketOf(k))
        /\ Escalated(k) /\ results[k].trace.escalation
        /\ \E m \in 1..Len(managers_df) : "VIP" \in managers_df[m].skills_set

\* Offices the fallback ladder of a ticket visits.
FallbackOffices(t, home) ==
    IF t.coords.known THEN OtherOffices(home)
    ELSE {astana_office, almaty_office} \ {home}

\* C8: a ticket is escalated exactly when the home filtered set is empty and
\* every (office, pass) of the ladder is empty; the escalated assignment
\* keeps the office, reason and distance of home-office selection.
C8_EscalationIffLadderEmpty ==
    \A k \in 1..Len(results) :
        LET a    == results[k]
            t    == TicketOf(k)
            home == a.trace.home_office
        IN  /\ Escalated(k) <=>
                  /\ PassSet("full", home, t) = {}
                  /\ \A o \in FallbackOffices(t, home) :
                        \A i \in 1..Len(PassOrder(t)) : PassSet(PassOrder(t)[i], o, t) = {}
            /\ Escalated(k) =>
                  /\ a.office = home
                  /\ a.office_reason = a.trace.office_reason
                  /\ a.office_reason # "nearest_office"
                  /\ a.distance_km = a.trace.distance_km
                  /\ a.office_reason = "by_coords" =>
                        /\ a.distance_km = distance_km(t.coords, geocode(home))
                        /\ \A i \in 1..Len(Units) :
                              geocode(Units[i]).known =>
                                 a.distance_km <= distance_km(t.coords, geocode(Units[i]))

\* Witness C8: a finished run with an escalated ticket and a ticket whose
\* home set was empty but which the ladder redirected.
C8_Witness ==
    /\ pc = "done"
    /\ \E k, j \in 1..Len(results) :
          /\ Escalated(k) /\ results[k].office_reason = "by_coords"
          /\ ~Escalated(j) /\ results[j].office_reason = "nearest_office"

\* C9: whatever the completion order of the workers, slot i of the collected
\* list holds the enrichment of input ticket i and the assignments are in
\* input order.
C9_InputOrderPreserved ==
    /\ \A i \in 1..N :
          IF wstate[i] = "collected"
          THEN /\ enriched_rows[i] = future_result[i]
               /\ enriched_rows[i].guid = tickets_df[i].guid
               /\ enriched_rows[i].description = tickets_df[i].description
               /\ enriched_rows[i].city = tickets_df[i].city
               /\ enriched_rows[i].segment = tickets_df[i].segment
          ELSE enriched_rows[i] = NoRow
    /\ \A k \in 1..Len(results) : results[k].guid = tickets_df[k].guid

\* Witness C9: the second ticket has been collected while the first, with a
\* different body, is still being enriched or waits to be collected.
C9_Witness ==
    /\ N >= 2
    /\ wstate[2] = "collected" /\ wstate[1] \in {"running", "done"}
    /\ tickets_df[1].description # tickets_df[2].description

\* C10: no routing step happens before every enrichment has been collected,
\* and routing handles one ticket at a time, in input order.
C10_RoutingAfterEnrichment ==
    [][ /\ ( \/ pc' # pc \/ load' # load \/ rr_counters' # rr_counters
             \/ unknown_loc_counter' # unknown_loc_counter \/ results' # results )
           => ( /\ \A i \in 1..N : wstate[i] = "collected" /\ enriched_rows[i] # NoRow
                /\ wstate' = wstate /\ enriched_rows' = enriched_rows )
        /\ results' # results =>
              /\ pc = "routing"
              /\ Len(results') = Len(results) + 1
              /\ SubSeq(results', 1, Len(results)) = results
              /\ results'[Len(results')].guid = tickets_df[Len(results')].guid ]_vars

\* Witness C10: routing has mutated a load and a round-robin counter.
C10_Witness ==
    /\ pc = "routing"
    /\ load # InitialLoad
    /\ DOMAIN rr_counters # {}
    /\ Len(results) < N

\* The rows distribute returns on the frame rows[k..], and whether it raised,
\* when the rows are enriched and routed one after the other.
RECURSIVE DistributeFrom(_, _, _, _, _, _)
DistributeStep(rows, k, r, acc) ==
    IF r.raised THEN [raised |-> TRUE, results |-> acc]
    ELSE DistributeFrom(rows, k + 1, r.load, r.rr, r.ulc, Append(acc, r.row))

DistributeFrom(rows, k, ld, rr, ulc, acc) ==
    IF k > Len(rows) THEN [raised |-> FALSE, results |-> acc]
    ELSE DistributeStep(rows, k, distribute_one(prepare_ticket(rows[k]), ld, rr, ulc), acc)

\* The run in which every ticket is enriched before the next one starts.
SequentialRun ==
    DistributeFrom([i \in 1..N |-> enrich_one(tickets_df[i], NoLLM)],
                   1, InitialLoad, << >>, 0, << >>)

\* C11: with the LLM disabled the assignments and traces are a function of
\* the tickets, managers, initial loads and offices alone: under every
\* scheduling of the workers the rows produced so far are a prefix of those
\* of the sequential run, a finished run has produced all of them, and a run
\* raises exactly where the sequential run does.
C11_SchedulingIndependent ==
    (api_key = "" /\ pc \in {"routing", "done", "raised"}) =>
        /\ Len(results) <= Len(SequentialRun.results)
        /\ results = SubSeq(SequentialRun.results, 1, Len(results))
        /\ pc = "done" => (~SequentialRun.raised /\ results = SequentialRun.results)
        /\ pc = "raised" => (SequentialRun.raised /\ results = SequentialRun.results)

\* Witness C11: a finished run of three tickets with different bodies, served
\* by different managers, one of them through the fallback.
C11_Witness ==
    /\ pc = "done" /\ api_key = ""
    /\ N = 3
    /\ tickets_df[1].description # tickets_df[2].description
    /\ results[1].manager # results[2].manager
    /\ \E k \in 1..3 : results[k].office_reason = "nearest_office"

\* The future of ticket i has completed.
Enriched(i) == wstate[i] \in {"done", "collected"}

\* The record of ticket i is the one of the except branch: the recommender
\* never returns the empty string.
Defaulted(i) == Enriched(i) /\ future_result[i].recommendation = ""

\* distribute has reached ticket i: it appended its row or raised on it.
Reached(i) == i <= Len(results) \/ (pc = "raised" /\ i = Len(results) + 1)

\* C12: a ticket whose enrichment raised gets the defaulted record
\* (Consultation, RU, NEU, priority 5, empty summary, no coordinates), is
\* collected like any other, and distribute routes it without failing.
C12_DefaultedTicketIsRouted ==
    \A i \in 1..N :
        Defaulted(i) =>
            /\ future_result[i].ai_type = "Consultation"
            /\ future_result[i].ai_lang = "RU"
            /\ future_result[i].sentiment = "NEU"
            /\ future_result[i].priority = 5
            /\ future_result[i].summary = ""
            /\ future_result[i].coords = NoCoords
            /\ wstate[i] = "collected" => enriched_rows[i] = future_result[i]
            /\ Reached(i) => (i <= Len(results) /\ results[i].guid = tickets_df[i].guid)

\* The score the priority rule is claimed to compute.
ClaimedPriority(ai_type, sentiment, segment) ==
    LET score == 5 + (IF ai_type \in {"Fraud", "Complaint", "Claim"} THEN 3 ELSE 0)
                   + (IF sentiment = "NEG" THEN 2 ELSE 0)
                   + (IF Upper(segment) \in {"VIP", "PRIORITY"} THEN 2 ELSE 0)
    IN  IF score < 1 THEN 1 ELSE IF score > 10 THEN 10 ELSE score

\* The record of ticket i was computed by the rules alone.
RuleBased(i) ==
    /\ Enriched(i) /\ ~Defaulted(i)
    /\ ~analyze_with_llm(tickets_df[i].description, llm_response[i]).present

\* C13: the rule-based priority is clamp(5 + 3*[category in {Fraud,
\* Complaint, Claim}] + 2*[sentiment = NEG] + 2*[segment in {VIP, PRIORITY}],
\* 1, 10); a PRIORITY ticket gets the same +2 as a VIP ticket.
C13_PriorityFormula ==
    \A i \in 1..N :
        RuleBased(i) =>
            future_result[i].priority =
                ClaimedPriority(future_result[i].ai_type, future_result[i].sentiment,
                                tickets_df[i].segment)

\* C14: the priority of every enrichment record is an integer in [1, 10],
\* whether computed by the rules, supplied by the LLM response, or set by
\* the except branch.
C14_PriorityInRange ==
    \A i \in 1..N :
        /\ Enriched(i) => future_result[i].priority \in 1..10
        /\ wstate[i] = "collected" => enriched_rows[i].priority \in 1..10

\* Witness C14: one record whose rule-based score 12 was clamped, next to a
\* record whose priority came from an LLM response carrying a float.
C14_Witness ==
    \E i, j \in 1..N :
        /\ RuleBased(i) /\ future_result[i].ai_type = "Fraud"
        /\ Upper(tickets_df[i].segment) = "VIP" /\ future_result[i].priority = 10
        /\ Enriched(j) /\ llm_response[j].data.priority.kind = "float"
        /\ analyze_with_llm(tickets_df[j].description, llm_response[j]).present
        /\ future_result[j].priority = 9

\* Witness C14, except branch: a defaulted record next to one whose LLM
\* response was rejected for a priority outside [1, 10].
C14_WitnessDefaulted ==
    \E i, j \in 1..N :
        /\ Defaulted(i) /\ future_result[i].priority = 5
        /\ RuleBased(j) /\ llm_response[j].id = "priority_11"

\* The reason of the first rule of home-office selection that applies to a
\* prepared ticket, in the order by_coords, by_distance, by_match, 50_50,
\* default.
FirstRule(t) ==
    IF t.coords.known THEN "by_coords"
    ELSE IF geocode(t.city).known \/ geocode(t.region).known THEN "by_distance"
    ELSE IF \E i \in 1..Len(Units) :
               /\ normalise(Units[i]) # "" /\ normalise(t.city) # ""
               /\ normalise(Units[i]) = normalise(t.city)
         THEN "by_match"
    ELSE IF LowerCountry(t.country) # "" /\ LowerCountry(t.country) \notin {"kazakhstan", "kaz"}
         THEN "50_50"
    ELSE "default"

\* C15: get_office returns the reason of the first rule that applies, in
\* the order by_coords, by_distance, by_match, 50_50, default: every ticket
\* distribute has reached got a row whose home-office reason is that of its
\* first applicable rule.
C15_FirstApplicableRule ==
    \A i \in 1..N :
        Reached(i) =>
            /\ i <= Len(results)
            /\ results[i].trace.office_reason = FirstRule(TicketOf(i))

\* Number of tickets before ticket i whose first applicable rule is 50_50.
Earlier5050(i) == Cardinality({j \in 1..(i - 1) : FirstRule(TicketOf(j)) = "50_50"})

\* C16: the k-th ticket sent by the 50_50 rule (k = 0, 1, ...) gets the
\* Astana office when k is even and the Almaty office when k is odd,
\* whatever tickets of other rules lie in between.
C16_FiftyFiftyAlternates ==
    \A i \in 1..N :
        (Reached(i) /\ FirstRule(TicketOf(i)) = "50_50") =>
            /\ i <= Len(results)
            /\ results[i].trace.office_reason = "50_50"
            /\ results[i].trace.home_office =
                  (IF Earlier5050(i) % 2 = 0 THEN "Astana" ELSE "Almaty")

\* C17: for a ticket without coordinates whose city and region the geocoder
\* does not know, geocoding gives no coordinates as a value and home-office
\* selection completes with reason by_match, 50_50 or default.
C17_UnknownCityFallsThrough ==
    \A i \in 1..N :
        ( /\ Reached(i)
          /\ ~TicketOf(i).coords.known
          /\ ~geocode(TicketOf(i).city).known /\ ~geocode(TicketOf(i).region).known )
        => /\ i <= Len(results)
           /\ results[i].trace.office_reason \in {"by_match", "50_50", "default"}

\* C18: in a pipeline run a ticket whose input row has no lat/lon (none of
\* the rows read from the database has) and whose city geocodes is given
\* office_reason by_distance, by_coords being left to rows that arrived with
\* coordinates.
C18_GeocodedCityIsByDistance ==
    \A k \in 1..Len(results) :
        geocode(tickets_df[k].city).known =>
            /\ results[k].trace.office_reason = "by_distance"
            /\ results[k].office_reason \in {"by_distance", "nearest_office"}

\* What analyze_with_llm returned to the enricher for ticket i.
LLMResult(i) == analyze_with_llm(tickets_df[i].description, llm_response[i])

\* C19: the LLM adapter returns a result only when the response parses and
\* both its summary and its recommendation are non-empty strings; a missing
\* or empty summary or recommendation yields null.
C19_AdapterRequiresSummaryAndRecommendation ==
    \A i \in 1..N :
        (Enriched(i) /\ LLMResult(i).present) =>
            /\ llm_response[i].parses
            /\ safe_str(llm_response[i].data.summary) # ""
            /\ safe_str(llm_response[i].data.recommendation) # ""

\* C20: the summary and the recommendation of every enrichment record have
\* at most 300 characters each, whether they come from the summarizer and
\* the recommender or from the LLM response.
C20_SummaryAndRecommendationBounded ==
    \A i \in 1..N :
        Enriched(i) =>
            /\ Chars(future_result[i].summary) <= 300
            /\ Chars(future_result[i].recommendation) <= 300

\* A row produced by the fallback for a ticket with coordinates.
RedirectedByCoords(k) ==
    /\ results[k].office_reason = "nearest_office"
    /\ TicketOf(k).coords.known

\* Position in PassOrder(t) of the strictest pass that is non-empty in
\* office o, 0 when every pass is empty there.
FirstPass(o, t) ==
    IF \A i \in 1..Len(PassOrder(t)) : PassSet(PassOrder(t)[i], o, t) = {}
    THEN 0
    ELSE CHOOSE i \in 1..Len(PassOrder(t)) :
            /\ PassSet(PassOrder(t)[i], o, t) # {}
            /\ \A j \in 1..(i - 1) : PassSet(PassOrder(t)[j], o, t) = {}

\* C21: with known coordinates the ladder is pass-major: the redirected
\* manager comes from the strictest pass that is non-empty in the office
\* chosen, and every stricter pass is empty in every office other than the
\* home office, however near or far those offices are.
C21_PassMajorWithCoords ==
    \A k \in 1..Len(results) :
        RedirectedByCoords(k) =>
            LET t    == TicketOf(k)
                home == results[k].trace.home_office
                p    == FirstPass(results[k].office, t)
            IN  /\ p >= 1
                /\ MgrByName(results[k].manager) \in PassSet(PassOrder(t)[p], results[k].office, t)
                /\ \A o \in OtherOffices(home) :
                      \A j \in 1..(p - 1) : PassSet(PassOrder(t)[j], o, t) = {}

\* Witness C21: a ticket was redirected past a nearer office that has
\* managers, to a farther office whose manager satisfies a stricter pass.
C21_Witness ==
    \E k \in 1..Len(results) :
        /\ RedirectedByCoords(k)
        /\ \E o \in OtherOffices(results[k].trace.home_office) :
              /\ distance_km(TicketOf(k).coords, geocode(o)) < results[k].distance_km
              /\ FirstPass(o, TicketOf(k)) > FirstPass(results[k].office, TicketOf(k))

\* C22: a row has reason nearest_office only if its office is not the home
\* office of its trace, and for a ticket with coordinates the office is the
\* nearest of the offices other than home in which the pass that succeeded
\* is non-empty.
C22_RedirectIsNearestNonHome ==
    \A k \in 1..Len(results) :
        results[k].office_reason = "nearest_office" =>
            /\ results[k].office # results[k].trace.home_office
            /\ results[k].trace.redirected_to_office = results[k].office
            /\ RedirectedByCoords(k) =>
                  LET t == TicketOf(k)
                      p == FirstPass(results[k].office, t)
                  IN  /\ results[k].office \in OtherOffices(results[k].trace.home_office)
                      /\ results[k].distance_km
                            = distance_km(t.coords, geocode(results[k].office))
                      /\ \A o \in OtherOffices(results[k].trace.home_office) :
                            PassSet(PassOrder(t)[p], o, t) # {} =>
                               results[k].distance_km <= distance_km(t.coords, geocode(o))

\* Witness C22: the pass that succeeded was non-empty in two offices other
\* than home and the ticket went to the nearer one.
C22_Witness ==
    \E k \in 1..Len(results) :
        /\ RedirectedByCoords(k)
        /\ \E o \in OtherOffices(results[k].trace.home_office) :
              /\ o # results[k].office
              /\ PassSet(PassOrder(TicketOf(k))[FirstPass(results[k].office, TicketOf(k))],
                         o, TicketOf(k)) # {}
              /\ results[k].distance_km < distance_km(TicketOf(k).coords, geocode(o))

\* C23: when a manager of the home office passes every filter the ticket
\* requires, the ticket goes to such a manager of the home office: the
\* ladder is not entered, the reason is the one of home-office selection and
\* no manager of another office is chosen.
C23_HomeOfficeFirst ==
    \A k \in 1..Len(results) :
        LET a == results[k]
            t == TicketOf(k)
        IN  PassSet("full", a.trace.home_office, t) # {} =>
               /\ ~Escalated(k)
               /\ a.office = a.trace.home_office
               /\ a.office_reason = a.trace.office_reason
               /\ a.office_reason # "nearest_office"
               /\ a.trace.escalation_reason = ""
               /\ a.trace.redirected_to_office = NoOffice
               /\ MgrByName(a.manager) \in PassSet("full", a.trace.home_office, t)

\* Witness C23: a ticket with required filters stayed in its home office
\* although a qualified manager of another office carried a smaller load.
C23_Witness ==
    \E k \in 1..Len(results) :
        /\ NeedsVip(TicketOf(k))
        /\ ~Escalated(k) /\ results[k].office = results[k].trace.home_office
        /\ \E m \in 1..Len(managers_df) :
              /\ managers_df[m].office # results[k].office
              /\ Qualifies(m, TicketOf(k))
              /\ LoadBefore(k)[m] < LoadBefore(k)[MgrByName(results[k].manager)]

\* The key of the round-robin counter of the k-th assignment.
KeyOf(k) == <<results[k].office, results[k].ai_lang>>

\* The k-th assignment was selected by the spread override.
ByOverride(k) ==
    /\ ~Escalated(k)
    /\ Cardinality(CandidatesFor(results[k], TicketOf(k))) > 1
    /\ Spread(CandidatesFor(results[k], TicketOf(k)), LoadBefore(k)) > 3

\* The k-th assignment was selected by the top-2 rotation.
ByTopTwo(k) == ~Escalated(k) /\ ~ByOverride(k)

\* C24: the first ticket routed under an (office, language) key, to a
\* candidate set of spread at most 3, goes to the least-loaded candidate,
\* the smallest name among equal loads; with M1 (load 2), M2 (load 4) and a
\* fresh counter that is M1.
C24_FirstPickIsLeastLoaded ==
    \A k \in 1..Len(results) :
        ( /\ ~Escalated(k)
          /\ \A j \in 1..(k - 1) : Escalated(j) \/ KeyOf(j) # KeyOf(k)
          /\ Spread(CandidatesFor(results[k], TicketOf(k)), LoadBefore(k)) <= 3 )
        => /\ results[k].manager
                = managers_df[Least(CandidatesFor(results[k], TicketOf(k)), LoadBefore(k))].name
           /\ ( /\ managers_df = Roster4
                /\ CandidatesFor(results[k], TicketOf(k)) = {3, 4}
                /\ LoadBefore(k)[3] = 2 /\ LoadBefore(k)[4] = 4 )
              => results[k].manager = "M1"

\* Witness C24: M1 (load 2) and M2 (load 4) were the candidates of the first
\* ticket of their key and M1 was chosen.
C24_Witness ==
    \E k \in 1..Len(results) :
        /\ managers_df = Roster4
        /\ CandidatesFor(results[k], TicketOf(k)) = {3, 4}
        /\ LoadBefore(k)[3] = 2 /\ LoadBefore(k)[4] = 4
        /\ \A j \in 1..(k - 1) : Escalated(j) \/ KeyOf(j) # KeyOf(k)
        /\ results[k].manager = "M1"

\* C25: in the trace of every assignment, escalation is true exactly when
\* the manager is the sentinel, and the trace of an escalated assignment
\* carries escalation_reason no_suitable_manager_in_home_office.
C25_EscalationFlagMatchesSentinel ==
    \A k \in 1..Len(results) :
        /\ results[k].trace.escalation <=> results[k].manager = SENTINEL
        /\ results[k].manager = SENTINEL =>
              results[k].trace.escalation_reason = "no_suitable_manager_in_home_office"

\* Witness C25: a finished run with an escalated row, a redirected row (which
\* keeps the escalation reason without being an escalation) and a home row.
C25_Witness ==
    /\ pc = "done"
    /\ \E k, j, h \in 1..Len(results) :
          /\ Escalated(k) /\ results[k].trace.escalation
          /\ results[j].office_reason = "nearest_office"
          /\ results[j].trace.escalation_reason = "no_suitable_manager_in_home_office"
          /\ ~results[j].trace.escalation
          /\ ~Escalated(h) /\ results[h].trace.escalation_reason = ""

\* The first two managers of S in ascending (load, name) order.
TopTwo(S, ld) ==
    IF Cardinality(S) = 1 THEN <<Least(S, ld)>>
    ELSE <<Least(S, ld), Least(S \ {Least(S, ld)}, ld)>>

\* The number of earlier top-2 selections under the key of the k-th assignment,
\* whatever their category, segment or home office.
RotationsBefore(k) ==
    Cardinality({j \in 1..(k - 1) : ByTopTwo(j) /\ KeyOf(j) = KeyOf(k)})

\* C26: the counter a top-2 selection reads depends only on the office of
\* the chosen pool and the ticket's language: the selection takes the entry
\* of the top two at the index given by the number of earlier top-2
\* selections with the same (office, language), counted across categories
\* and segments and across home tickets and tickets redirected into that
\* office.
C26_CounterKeyIsOfficeAndLanguage ==
    \A k \in 1..Len(results) :
        ByTopTwo(k) =>
            LET top2 == TopTwo(CandidatesFor(results[k], TicketOf(k)), LoadBefore(k))
            IN  results[k].manager
                   = managers_df[top2[(RotationsBefore(k) % Len(top2)) + 1]].name

\* Witness C26: a ticket redirected into an office advanced the counter that
\* a later home ticket of that office, of another segment and category, read:
\* the home ticket got the second of its top two.
C26_Witness ==
    \E j, k \in 1..Len(results) :
        /\ j < k /\ ByTopTwo(j) /\ ByTopTwo(k) /\ KeyOf(j) = KeyOf(k)
        /\ results[j].office_reason = "nearest_office"
        /\ results[k].office_reason # "nearest_office"
        /\ TicketOf(j).segment # TicketOf(k).segment
        /\ TicketOf(j).ai_type # TicketOf(k).ai_type
        /\ RotationsBefore(k) = 1
        /\ Cardinality(CandidatesFor(results[k], TicketOf(k))) > 1
        /\ results[k].manager
              = managers_df[TopTwo(CandidatesFor(results[k], TicketOf(k)),
                                   LoadBefore(k))[2]].name
        /\ results[k].manager
              # managers_df[Least(CandidatesFor(results[k], TicketOf(k)),
                                  LoadBefore(k))].name

\* The record enrich_one computes for ticket i when the LLM returns null.
NullLLMRecord(i) == enrich_one(tickets_df[i], NoLLM)

\* C27: the category, language and coordinates of every enrichment record,
\* and the office and manager of every assignment, are those of the run in
\* which the LLM returned null for every ticket: the content of the LLM
\* response changes the summary and the recommendation only.
C27_RoutingIndependentOfLLM ==
    /\ \A i \in 1..N :
          (Enriched(i) /\ ~Defaulted(i)) =>
              /\ future_result[i].ai_type = NullLLMRecord(i).ai_type
              /\ future_result[i].ai_lang = NullLLMRecord(i).ai_lang
              /\ future_result[i].coords = NullLLMRecord(i).coords
    /\ (pc \in {"routing", "done", "raised"} /\ \A i \in 1..N : ~Defaulted(i)) =>
          /\ Len(results) <= Len(SequentialRun.results)
          /\ \A k \in 1..Len(results) :
                /\ results[k].office = SequentialRun.results[k].office
                /\ results[k].manager = SequentialRun.results[k].manager

\* The value rr_counters.get(key, 0) reads.
CounterOf(key) == IF key \in DOMAIN rr_counters THEN rr_counters[key] ELSE 0

\* The rows selected by the top-2 rotation under a key.
TopTwoRows(key) == {k \in 1..Len(results) : ByTopTwo(k) /\ KeyOf(k) = key}

\* C28: after any sequence of routed tickets the counter of every key
\* (office, language) is the number of selections made under that key by the
\* top-2 rotation: a spread override, an escalation to the sentinel and a
\* selection under another key leave it unchanged.
C28_CounterCountsTopTwoSelections ==
    \A key \in DOMAIN rr_counters \cup {KeyOf(k) : k \in 1..Len(results)} :
        CounterOf(key) = Cardinality(TopTwoRows(key))

\* Witness C28: a key whose counter is positive and smaller than the number
\* of assignments made in its office and language, because one of them went
\* through the spread override, next to a selection under another key.
C28_Witness ==
    \E key \in DOMAIN rr_counters :
        /\ rr_counters[key] >= 1
        /\ \E k \in 1..Len(results) : ByOverride(k) /\ KeyOf(k) = key
        /\ \E j \in 1..Len(results) : ~Escalated(j) /\ KeyOf(j) # key

\* Witness C28, escalation: an escalated ticket left the counter of its
\* home office and language at zero while another key advanced.
C28_WitnessEscalation ==
    \E k, j \in 1..Len(results) :
        /\ Escalated(k) /\ CounterOf(KeyOf(k)) = 0
        /\ ByTopTwo(j) /\ CounterOf(KeyOf(j)) >= 1

\* The call of get_client made by worker i has returned.
ClientReturned(i) == gc_pc[i] = "done"

\* C29: with a fixed, present credential, under every interleaving of the
\* workers' calls of get_client the client is constructed at most once and,
\* when all calls have returned, every call has returned the client that is
\* cached.
C29_ClientConstructedOnce ==
    api_key # "" =>
        /\ Cardinality(constructed) <= 1
        /\ (\A i \in 1..N : tickets_df[i].description # "" => ClientReturned(i))
              => \A i \in 1..N :
                    ClientReturned(i) => (gc_ret[i] # NoClient /\ gc_ret[i] = client)

\* The capitals the fallback of a ticket without coordinates visits, in order.
CapitalsAfter(home) ==
    SelectSeq(<<astana_office, almaty_office>>, LAMBDA o : o # home)

\* The first capital other than home in which some pass of t is non-empty,
\* NoOffice when there is none.
FirstCapital(home, t) ==
    IF \A j \in 1..Len(CapitalsAfter(home)) : FirstPass(CapitalsAfter(home)[j], t) = 0
    THEN NoOffice
    ELSE CapitalsAfter(home)[CHOOSE j \in 1..Len(CapitalsAfter(home)) :
            /\ FirstPass(CapitalsAfter(home)[j], t) # 0
            /\ \A h \in 1..(j - 1) : FirstPass(CapitalsAfter(home)[h], t) = 0]

\* C30: a ticket without coordinates that distribute has reached is
\* assigned, and when its home office has no qualified manager the fallback
\* is office-major over Astana, Almaty (home skipped): the first capital in
\* which any pass is non-empty is chosen with its strictest non-empty pass,
\* also when the other capital satisfies a stricter pass, and the redirected
\* assignment has no distance.
C30_NoCoordsFallbackIsOfficeMajor ==
    \A i \in 1..N :
        (Reached(i) /\ ~TicketOf(i).coords.known) =>
            /\ i <= Len(results)
            /\ PassSet("full", results[i].trace.home_office, TicketOf(i)) = {} =>
                  IF FirstCapital(results[i].trace.home_office, TicketOf(i)) = NoOffice
                  THEN Escalated(i)
                  ELSE /\ results[i].office_reason = "nearest_office"
                       /\ results[i].office
                             = FirstCapital(results[i].trace.home_office, TicketOf(i))
                       /\ MgrByName(results[i].manager)
                             \in PassSet(PassOrder(TicketOf(i))[FirstPass(results[i].office,
                                                                          TicketOf(i))],
                                         results[i].office, TicketOf(i))
                       /\ results[i].distance_km = NoDist

====
